---- MODULE Spec2Model ----
(***************************************************************************)
(* A model of the attentive AT-command driver core: the line parser of     *)
(* src/at_parser.c and the FreeRTOS dispatcher of src/src/at-freertos_hal.c *)
(*                                                                         *)
(* Bytes are one-character strings.  The parser's buffer is the sequence   *)
(* buf[0 .. buf_used-1], so buf_used is Len(parser.buf).                    *)
(***************************************************************************)
EXTENDS Integers, Sequences, FiniteSets, TLC

\* ------------------------------------------------------------------ bounds

\* The largest buffer size at_parser_alloc is called with.
MaxBufSize == 8

\* The number of at_parser_feed calls explored after a reset.
MaxFeeds == 3

\* The number of at_parser_await_response calls explored after a reset.
MaxArms == 1

\* ------------------------------------------------------------------ bytes

CR == "\r"
LF == "\n"
NULL == "NULL"

\* The largest size_t the model's integers can hold; buf_size - 1 wraps to it.
SIZE_MAX == 2147483647

\* The buffer sizes given to at_parser_alloc.
BufSizes == {0, 1, 4, MaxBufSize}

\* The byte slices handed to at_parser_feed.
Chunks ==
    { <<"A">>, <<LF>>,
      <<"A", CR, LF>>,
      <<"O", "K", CR, LF>>,
      <<"R", "I", "N", "G", CR, LF>>,
      <<"E", "R", "R", "O", "R", CR, LF>>,
      <<">", " ">> }

\* What a read past the end of the caller's slice may return.
OverreadBytes == {"A", LF}

\* The value malloc leaves in a field at_parser_alloc never sets.
UninitNibble == {0, -1}

\* ------------------------------------------------------------------ enums

STATE_IDLE == "IDLE"
STATE_READLINE == "READLINE"
STATE_DATAPROMPT == "DATAPROMPT"
STATE_RAWDATA == "RAWDATA"
STATE_HEXDATA == "HEXDATA"

AT_RESPONSE_UNKNOWN == 0
AT_RESPONSE_INTERMEDIATE == 1
AT_RESPONSE_FINAL_OK == 2
AT_RESPONSE_FINAL == 3
AT_RESPONSE_URC == 4
RESPONSE_RAWDATA_FOLLOWS == 5
RESPONSE_HEXDATA_FOLLOWS == 6
\* type & _AT_RESPONSE_TYPE_MASK is type % RESPONSE_TYPE_MOD; type >> 8 is
\* type \div RESPONSE_TYPE_MOD.
RESPONSE_TYPE_MOD == 256

AT_RESPONSE_RAWDATA_FOLLOWS(n) == RESPONSE_RAWDATA_FOLLOWS + n * RESPONSE_TYPE_MOD
AT_RESPONSE_HEXDATA_FOLLOWS(n) == RESPONSE_HEXDATA_FOLLOWS + n * RESPONSE_TYPE_MOD

\* ok_responses without the prompt.
ok_responses_NoPrompt == { <<"O", "K">> }

ok_responses == { <<"O", "K">>, <<">", " ">> }

error_responses ==
    { <<"E", "R", "R", "O", "R">>,
      <<"N", "O", " ", "C", "A", "R", "R", "I", "E", "R">>,
      <<"+", "C", "M", "E", " ", "E", "R", "R", "O", "R", ":">>,
      <<"+", "C", "M", "S", " ", "E", "R", "R", "O", "R", ":">> }

urc_responses == { <<"R", "I", "N", "G">> }

\* ------------------------------------------------------------------ state

VARIABLES
    parser,     \* struct at_parser
    allocated,  \* the struct at_parser as at_parser_alloc returned it
    calls,      \* the callbacks made since the last at_parser_reset call
    fed,        \* the bytes consumed since the last at_parser_reset call
    idle,       \* where in fed and calls the parser last became idle
    arm,        \* the last at_parser_await_response call since the reset
    hung,       \* at_parser_feed is stuck in its loop
    over,       \* bytes read past the end of a fed slice
    nfeeds,     \* at_parser_feed calls since the last at_parser_reset call
    chan,       \* struct at_freertos: open, running, waiting, xUART, xSem,
                \* timeout, response, command_scanner
    cmd,        \* the caller inside _at_command: pc, its local timeout, result
    reader,     \* at_reader_thread: its position and the byte it has read
    closer,     \* the task inside at_close or at_free: "idle", "deinit",
                \* "free_deinit" or "free_end"
    crashed,    \* a transport call went through a dropped reference
    obs         \* what an observer counts of the running command

pvars == <<parser, allocated, calls, fed, idle, arm, hung, over, nfeeds>>
cvars == <<chan, cmd, reader, closer, crashed, obs>>
pghost == <<allocated, calls, fed, idle, arm, over, nfeeds>>
vars == <<parser, allocated, calls, fed, idle, arm, hung, over, nfeeds,
          chan, cmd, reader, closer, crashed, obs>>

\* ------------------------------------------------------------------ scanners

\* Caller-supplied line classifiers (line_scanner_t values).  ScanSession is
\* installed as cbs->scan_line, ScanCommand as per_command_scanner.
ScanSession == "ScanSession"
ScanCommand == "ScanCommand"

UserScanner(scanner, line) ==
    CASE scanner = ScanSession ->
            IF line[1] = "A" THEN AT_RESPONSE_RAWDATA_FOLLOWS(Len(line) - 1)
            ELSE IF line[1] = "R" THEN AT_RESPONSE_INTERMEDIATE
            ELSE AT_RESPONSE_UNKNOWN
      [] scanner = ScanCommand ->
            IF line[1] = "A" THEN AT_RESPONSE_HEXDATA_FOLLOWS(Len(line) - 1)
            ELSE IF line[1] = "O" THEN AT_RESPONSE_URC
            ELSE AT_RESPONSE_UNKNOWN
      [] OTHER -> AT_RESPONSE_UNKNOWN

\* The dispatcher's scan_line callback; no session callbacks are installed
\* (at->cbs is NULL after at_alloc_freertos).
HalScanLine == "scan_line"

scan_line(line) ==
    IF chan.command_scanner # NULL
    THEN UserScanner(chan.command_scanner, line)
    ELSE AT_RESPONSE_UNKNOWN

RunScanner(scanner, line) ==
    IF scanner = HalScanLine THEN scan_line(line) ELSE UserScanner(scanner, line)

\* ------------------------------------------------------------------ parser

\* strncmp(line, table[i], strlen(table[i])) == 0
IsPrefix(t, line) == Len(t) <= Len(line) /\ SubSeq(line, 1, Len(t)) = t

at_prefix_in_table(line, table) == \E t \in table : IsPrefix(t, line)

generic_line_scanner(line) ==
    IF at_prefix_in_table(line, urc_responses) THEN AT_RESPONSE_URC
    ELSE IF at_prefix_in_table(line, error_responses) THEN AT_RESPONSE_FINAL
    ELSE IF at_prefix_in_table(line, ok_responses) THEN AT_RESPONSE_FINAL_OK
    ELSE AT_RESPONSE_INTERMEDIATE

\* at_parser_reset without the store to data_left.
at_parser_reset_KeepDataLeft(p) ==
    [p EXCEPT !.state = STATE_IDLE,
              !.per_command_scanner = NULL,
              !.buf = <<>>,
              !.buf_current = 0]

\* The parser struct after at_parser_alloc has set cbs, buf_size and priv.
at_parser_reset(p) ==
    [p EXCEPT !.state = STATE_IDLE,
              !.per_command_scanner = NULL,
              !.buf = <<>>,
              !.buf_current = 0,
              !.data_left = 0]

at_parser_alloc(cbs_scan_line, bufsize, garbage) ==
    at_parser_reset([scan_line |-> cbs_scan_line,
                     buf_size |-> bufsize,
                     state |-> STATE_IDLE,
                     per_command_scanner |-> NULL,
                     data_left |-> 0,
                     nibble |-> garbage,
                     buf |-> <<>>,
                     buf_current |-> 0])

at_parser_await_response(p, dataprompt, scanner) ==
    [p EXCEPT !.per_command_scanner = scanner,
              !.state = IF dataprompt THEN STATE_DATAPROMPT ELSE STATE_READLINE]

\* buf_size - 1 in size_t arithmetic.
Capacity(p) == IF p.buf_size = 0 THEN SIZE_MAX ELSE p.buf_size - 1

\* parser_append with the bound off by one.
parser_append_OffByOne(p, ch) ==
    IF Len(p.buf) <= Capacity(p) THEN [p EXCEPT !.buf = Append(@, ch)] ELSE p

parser_append(p, ch) ==
    IF Len(p.buf) < Capacity(p) THEN [p EXCEPT !.buf = Append(@, ch)] ELSE p

\* The classifier chain with the session scan_line asked first.
LineType_SessionFirst(p, line) ==
    LET t1 == IF p.scan_line # NULL
              THEN RunScanner(p.scan_line, line)
              ELSE AT_RESPONSE_UNKNOWN
        t2 == IF t1 = AT_RESPONSE_UNKNOWN /\ p.per_command_scanner # NULL
              THEN RunScanner(p.per_command_scanner, line)
              ELSE t1
    IN  IF t2 = AT_RESPONSE_UNKNOWN THEN generic_line_scanner(line) ELSE t2

\* The classifier chain of parser_handle_line.
LineType(p, line) ==
    LET t1 == IF p.per_command_scanner # NULL
              THEN RunScanner(p.per_command_scanner, line)
              ELSE AT_RESPONSE_UNKNOWN
        t2 == IF t1 = AT_RESPONSE_UNKNOWN /\ p.scan_line # NULL
              THEN RunScanner(p.scan_line, line)
              ELSE t1
    IN  IF t2 = AT_RESPONSE_UNKNOWN THEN generic_line_scanner(line) ELSE t2

\* A callback invocation, with the cursors the parser has when it is made.
Callback(cb, data, p) ==
    [cb |-> cb, data |-> data, cur |-> p.buf_current, used |-> Len(p.buf),
     size |-> p.buf_size]

\* Discard the current line and the newline before it (if any).
DiscardLine(p) ==
    LET cur == IF p.buf_current > 0 THEN p.buf_current - 1 ELSE p.buf_current
    IN  [p EXCEPT !.buf_current = cur, !.buf = SubSeq(p.buf, 1, cur)]

\* A run r is the parser p with what an observer sees of it: the callbacks
\* made, the bytes consumed, where it last went back to idle, whether
\* at_parser_feed is stuck in its loop, and how many bytes it read past the
\* end of its input.
parser_handle_line(r) ==
    LET p == r.p
        line == SubSeq(p.buf, p.buf_current + 1, Len(p.buf))
        type == LineType(p, line)
        kept == IF type # AT_RESPONSE_FINAL_OK
                THEN [p EXCEPT !.buf_current = Len(p.buf)]
                ELSE DiscardLine(p)
        cat == type % RESPONSE_TYPE_MOD
    IN  IF Len(p.buf) = p.buf_current THEN r
        ELSE IF type = AT_RESPONSE_URC \/ p.state = STATE_IDLE
        THEN [r EXCEPT !.calls = Append(@, Callback("handle_urc", line, p)),
                       !.p = DiscardLine(p)]
        ELSE IF cat \in {AT_RESPONSE_FINAL_OK, AT_RESPONSE_FINAL}
        THEN [r EXCEPT !.calls = Append(@, Callback("handle_response", kept.buf, kept)),
                       !.p = at_parser_reset(kept),
                       !.idle = [pos |-> Len(r.fed), ncalls |-> Len(r.calls) + 1]]
        ELSE IF cat = RESPONSE_RAWDATA_FOLLOWS
        THEN [r EXCEPT !.p = [kept EXCEPT !.data_left = type \div RESPONSE_TYPE_MOD,
                                          !.state = STATE_RAWDATA]]
        ELSE IF cat = RESPONSE_HEXDATA_FOLLOWS
        THEN [r EXCEPT !.p = [kept EXCEPT !.data_left = type \div RESPONSE_TYPE_MOD,
                                          !.nibble = -1,
                                          !.state = STATE_HEXDATA]]
        ELSE [r EXCEPT !.p = kept]

\* One pass of the loop body in STATE_IDLE, STATE_READLINE, STATE_DATAPROMPT.
FeedLineByte(r, ch) ==
    LET p == r.p
        sep == IF Len(p.buf) > 0 /\ p.buf_current = Len(p.buf)
               THEN LET q == parser_append(p, LF)
                    IN  [q EXCEPT !.buf_current = Len(q.buf)]
               ELSE p
        p1 == IF ch # CR /\ ch # LF THEN parser_append(sep, ch) ELSE p
        r1 == [r EXCEPT !.p = p1, !.fed = Append(@, ch)]
    IN  IF ch = LF
           \/ (p1.state = STATE_DATAPROMPT /\ Len(p1.buf) = 2
               /\ p1.buf = <<">", " ">>)
        THEN parser_handle_line(r1)
        ELSE r1

\* One pass of the loop body in STATE_RAWDATA.
FeedRawByte(r, ch) ==
    LET p == r.p
        p1 == IF p.data_left > 0
              THEN [parser_append(p, ch) EXCEPT !.data_left = p.data_left - 1]
              ELSE p
        p2 == IF p1.data_left = 0
              THEN LET q == parser_append(p1, LF)
                   IN  [q EXCEPT !.buf_current = Len(q.buf), !.state = STATE_READLINE]
              ELSE p1
    IN  [r EXCEPT !.p = p2, !.fed = Append(@, ch)]

\* *buf++ : the byte at index i of the caller's slice, or whatever lies
\* behind the slice.
ReadByte(data, i) == IF i <= Len(data) THEN {data[i]} ELSE OverreadBytes

NoteRead(r, data, i) == IF i <= Len(data) THEN r ELSE [r EXCEPT !.over = @ + 1]

\* The while (len > 0) loop of at_parser_feed, from index i with len left:
\* the set of runs it can end in.
RECURSIVE FeedLoop(_, _, _, _)
FeedLoop(r, data, i, len) ==
    IF len = 0 THEN {r}
    ELSE IF r.p.state = STATE_HEXDATA THEN {[r EXCEPT !.hung = TRUE]}
    ELSE IF r.p.state = STATE_RAWDATA
    THEN UNION { FeedLoop(FeedRawByte(NoteRead(r, data, i), ch), data, i + 1, len)
                 : ch \in ReadByte(data, i) }
    ELSE UNION { FeedLoop(FeedLineByte(NoteRead(r, data, i), ch), data, i + 1, len - 1)
                 : ch \in ReadByte(data, i) }

at_parser_feed(r, data) == FeedLoop(r, data, 1, Len(data))

\* ------------------------------------------------------------------ parser API

Run == [p |-> parser, calls |-> calls, fed |-> fed, idle |-> idle,
        hung |-> hung, over |-> over]

Fresh(p) == p = at_parser_reset(p)

\* No at_parser_await_response call since the last at_parser_reset call.
NoArm == [n |-> 0, pos |-> 0, ncalls |-> 0, dataprompt |-> FALSE,
          scanner |-> NULL, fresh |-> FALSE]

\* ------------------------------------------------------------------ bounds (dispatcher)

\* AT_BUF_SIZE of the dispatcher's parser and response scratch.
ChanBufSize == 4

\* The largest value given to at_set_timeout.
MaxTimeout == 1

\* The number of bytes the transport delivers to the reader.
MaxRx == 3

\* The number of _at_command calls.
MaxCommands == 1

\* The bytes the modem sends.
RxBytes == {"A", "O", "K", LF}

\* ------------------------------------------------------------------ dispatcher

UART == "uart"

\* at_alloc_freertos: memset 0, the parser, the transport, running, an
\* empty binary semaphore.
at_alloc_freertos ==
    [open |-> FALSE, running |-> TRUE, waiting |-> FALSE, xUART |-> UART,
     xSem |-> 0, timeout |-> 0, response |-> <<>>, command_scanner |-> NULL]

\* What _at_command returns: NULL, or priv->response with its contents.
NullResult == [null |-> TRUE, data |-> <<>>]
ResponseResult(data) == [null |-> FALSE, data |-> data]

CmdIdle == [pc |-> "idle", timeout |-> 0, result |-> NullResult]

ReaderIdle == [pc |-> "check", ch |-> NULL]

ObsIdle == [ncmds |-> 0, nrx |-> 0, tx |-> 0, waits |-> 0, path |-> NULL,
            delivered |-> FALSE, answered |-> "no",
            closedInWait |-> FALSE, ticksAfterClose |-> 0,
            takesAfterClose |-> 0]

ChanInit ==
    /\ chan = at_alloc_freertos
    /\ cmd = CmdIdle
    /\ reader = ReaderIdle
    /\ closer = "idle"
    /\ crashed = FALSE
    /\ obs = ObsIdle

ParserIdle ==
    /\ calls = <<>>
    /\ fed = <<>>
    /\ idle = [pos |-> 0, ncalls |-> 0]
    /\ arm = NoArm
    /\ hung = FALSE
    /\ over = 0
    /\ nfeeds = 0

\* ------------------------------------------------------------------ Spec: the parser alone

Init ==
    /\ \E cb \in {NULL, ScanSession}, bufsize \in BufSizes,
          garbage \in UninitNibble :
          parser = at_parser_alloc(cb, bufsize, garbage)
    /\ allocated = parser
    /\ ParserIdle
    /\ ChanInit

Reset ==
    /\ ~hung
    /\ parser' = at_parser_reset(parser)
    /\ calls' = <<>>
    /\ fed' = <<>>
    /\ idle' = [pos |-> 0, ncalls |-> 0]
    /\ arm' = NoArm
    /\ over' = 0
    /\ nfeeds' = 0
    /\ UNCHANGED <<allocated, hung>>
    /\ UNCHANGED cvars

AwaitResponse ==
    /\ ~hung
    /\ arm.n < MaxArms
    /\ \E dataprompt \in BOOLEAN, scanner \in {NULL, ScanCommand} :
          /\ parser' = at_parser_await_response(parser, dataprompt, scanner)
          /\ arm' = [n |-> arm.n + 1, pos |-> Len(fed), ncalls |-> Len(calls),
                     dataprompt |-> dataprompt, scanner |-> scanner,
                     fresh |-> Fresh(parser)]
    /\ UNCHANGED <<allocated, calls, fed, idle, hung, over, nfeeds>>
    /\ UNCHANGED cvars

Feed ==
    /\ ~hung
    /\ nfeeds < MaxFeeds
    /\ \E data \in Chunks : \E r \in at_parser_feed(Run, data) :
          /\ parser' = r.p
          /\ calls' = r.calls
          /\ fed' = r.fed
          /\ idle' = r.idle
          /\ hung' = r.hung
          /\ over' = r.over
    /\ nfeeds' = nfeeds + 1
    /\ UNCHANGED <<allocated, arm>>
    /\ UNCHANGED cvars

Next == Reset \/ AwaitResponse \/ Feed

Spec == Init /\ [][Next]_vars

\* ------------------------------------------------------------------ SpecChan: the dispatcher

InitChan ==
    /\ parser = at_parser_alloc(HalScanLine, ChanBufSize, 0)
    /\ allocated = parser
    /\ ParserIdle
    /\ ChanInit

\* Nothing has faulted, and at_free has not run: the channel is not used
\* after at_free.
Alive == ~crashed /\ chan.running

\* at_free has been called: its caller is the last user of the channel, and
\* no other call on the channel is begun.
Freeing == closer \in {"free_deinit", "free_end"}

\* A call through priv->xUART->ops: through a dropped reference it either
\* faults or goes nowhere.
TransportCall(ok, lost) ==
    IF chan.xUART # NULL THEN ok
    ELSE \/ crashed' = TRUE /\ UNCHANGED <<parser, hung, chan, cmd, reader, closer, obs>>
         \/ lost

\* at_open
Open ==
    /\ UNCHANGED pghost
    /\ Alive /\ closer = "idle"
    /\ chan.xUART # NULL
    /\ chan' = [chan EXCEPT !.open = TRUE, !.xSem = 0]
    /\ UNCHANGED <<parser, hung, cmd, reader, closer, crashed, obs>>

\* at_open on a channel whose transport reference is gone: return -1.
OpenFails ==
    /\ UNCHANGED pghost
    /\ Alive /\ closer = "idle"
    /\ chan.xUART = NULL
    /\ UNCHANGED <<parser, hung, chan, cmd, reader, closer, crashed, obs>>

InWait == cmd.pc \in {"loop", "take"}

\* at_close, line 134: priv->open = false.  The application calls at_close
\* on a channel it has not closed before; at_free calls it on any.
CloseBegin ==
    /\ UNCHANGED pghost
    /\ Alive /\ closer = "idle"
    /\ chan.xUART # NULL
    /\ chan' = [chan EXCEPT !.open = FALSE]
    /\ closer' = "deinit"
    /\ obs' = [obs EXCEPT !.closedInWait = @ \/ InWait]
    /\ UNCHANGED <<parser, hung, cmd, reader, crashed>>

\* at_close, lines 137-138: priv->xUART->ops->deinit, priv->xUART = NULL
Deinit(next) ==
    TransportCall(
       /\ chan' = [chan EXCEPT !.xUART = NULL]
       /\ closer' = next
       /\ UNCHANGED <<parser, hung, cmd, reader, crashed, obs>>,
       /\ chan' = [chan EXCEPT !.xUART = NULL]
       /\ closer' = next
       /\ UNCHANGED <<parser, hung, cmd, reader, crashed, obs>>)

\* at_close, lines 137-140
CloseEnd ==
    /\ UNCHANGED pghost
    /\ Alive /\ closer = "deinit"
    /\ Deinit("idle")

\* at_free, line 148: at_close, whatever the channel's state; line 134
FreeBegin ==
    /\ UNCHANGED pghost
    /\ Alive /\ closer = "idle"
    /\ cmd.pc = "idle"
    /\ chan' = [chan EXCEPT !.open = FALSE]
    /\ closer' = "free_deinit"
    /\ UNCHANGED <<parser, hung, cmd, reader, crashed, obs>>

\* at_free inside at_close, lines 137-140
FreeDeinit ==
    /\ UNCHANGED pghost
    /\ Alive /\ closer = "free_deinit"
    /\ Deinit("free_end")

\* at_free, lines 151-158: running = false, delete the reader task and the
\* semaphore
FreeEnd ==
    /\ UNCHANGED pghost
    /\ Alive /\ closer = "free_end"
    /\ chan' = [chan EXCEPT !.running = FALSE, !.xSem = 0]
    /\ reader' = [pc |-> "deleted", ch |-> NULL]
    /\ closer' = "idle"
    /\ UNCHANGED <<parser, hung, cmd, crashed, obs>>

\* at_set_timeout
SetTimeout ==
    /\ UNCHANGED pghost
    /\ Alive /\ cmd.pc = "idle" /\ ~Freeing
    /\ \E seconds \in 0 .. MaxTimeout :
          /\ seconds # chan.timeout
          /\ chan' = [chan EXCEPT !.timeout = seconds]
    /\ UNCHANGED <<parser, hung, cmd, reader, closer, crashed, obs>>

\* at_set_command_scanner
SetCommandScanner ==
    /\ UNCHANGED pghost
    /\ Alive /\ cmd.pc = "idle" /\ ~Freeing
    /\ chan.command_scanner = NULL
    /\ chan' = [chan EXCEPT !.command_scanner = ScanCommand]
    /\ UNCHANGED <<parser, hung, cmd, reader, closer, crashed, obs>>

\* _at_command without the test of priv->open at its entry.
CmdEnter_NoOpenCheck ==
    /\ UNCHANGED pghost
    /\ Alive /\ cmd.pc = "idle" /\ ~Freeing
    /\ obs.ncmds < MaxCommands
    /\ cmd' = [cmd EXCEPT !.pc = "arm", !.result = NullResult]
    /\ obs' = [obs EXCEPT !.ncmds = @ + 1, !.path = NULL, !.waits = 0,
                          !.delivered = FALSE, !.answered = "no",
                          !.closedInWait = FALSE, !.ticksAfterClose = 0,
                          !.takesAfterClose = 0]
    /\ UNCHANGED <<parser, hung, chan, reader, closer, crashed>>

\* _at_command, lines 218-221: bail out if the channel is closed.
CmdEnter ==
    /\ UNCHANGED pghost
    /\ Alive /\ cmd.pc = "idle" /\ ~Freeing
    /\ obs.ncmds < MaxCommands
    /\ IF ~chan.open
       THEN /\ cmd' = [cmd EXCEPT !.pc = "ret", !.result = NullResult]
            /\ obs' = [obs EXCEPT !.ncmds = @ + 1, !.path = "not_open", !.waits = 0,
                                  !.delivered = FALSE, !.answered = "no",
                                  !.closedInWait = FALSE, !.ticksAfterClose = 0,
                                  !.takesAfterClose = 0]
       ELSE /\ cmd' = [cmd EXCEPT !.pc = "arm", !.result = NullResult]
            /\ obs' = [obs EXCEPT !.ncmds = @ + 1, !.path = NULL, !.waits = 0,
                                  !.delivered = FALSE, !.answered = "no",
                                  !.closedInWait = FALSE, !.ticksAfterClose = 0,
                                  !.takesAfterClose = 0]
    /\ UNCHANGED <<parser, hung, chan, reader, closer, crashed>>

\* line 224: at_parser_await_response.  The call names the parser alone; the
\* arguments taken here are no data prompt and the command's scanner.
CmdArm ==
    /\ UNCHANGED pghost
    /\ Alive /\ cmd.pc = "arm"
    /\ parser' = at_parser_await_response(parser, FALSE, chan.command_scanner)
    /\ cmd' = [cmd EXCEPT !.pc = "write"]
    /\ UNCHANGED <<hung, chan, reader, closer, crashed, obs>>

\* line 234: priv->xUART->ops->write
CmdWrite ==
    /\ UNCHANGED pghost
    /\ Alive /\ cmd.pc = "write"
    /\ TransportCall(
          /\ obs' = [obs EXCEPT !.tx = @ + 1]
          /\ cmd' = [cmd EXCEPT !.pc = "setwait"]
          /\ UNCHANGED <<parser, hung, chan, reader, closer, crashed>>,
          /\ cmd' = [cmd EXCEPT !.pc = "setwait"]
          /\ UNCHANGED <<parser, hung, chan, reader, closer, crashed, obs>>)

\* line 239: priv->waiting = true
CmdSetWaiting ==
    /\ UNCHANGED pghost
    /\ Alive /\ cmd.pc = "setwait"
    /\ chan' = [chan EXCEPT !.waiting = TRUE]
    /\ cmd' = [cmd EXCEPT !.pc = "drain1"]
    /\ UNCHANGED <<parser, hung, reader, closer, crashed, obs>>

\* line 241: xSemaphoreTake(priv->xSem, 0)
CmdDrain ==
    /\ UNCHANGED pghost
    /\ Alive /\ cmd.pc = "drain1"
    /\ chan' = [chan EXCEPT !.xSem = 0]
    /\ cmd' = [cmd EXCEPT !.pc = "drain2"]
    /\ UNCHANGED <<parser, hung, reader, closer, crashed, obs>>

\* lines 242-244: xSemaphoreTake(priv->xSem, 0); int timeout = priv->timeout
CmdDrainLoad ==
    /\ UNCHANGED pghost
    /\ Alive /\ cmd.pc = "drain2"
    /\ chan' = [chan EXCEPT !.xSem = 0]
    /\ cmd' = [cmd EXCEPT !.pc = "loop", !.timeout = chan.timeout]
    /\ UNCHANGED <<parser, hung, reader, closer, crashed, obs>>

\* line 245: while (timeout-- && priv->open && priv->waiting)
CmdLoop ==
    /\ UNCHANGED pghost
    /\ Alive /\ cmd.pc = "loop"
    /\ cmd' = [cmd EXCEPT !.timeout = cmd.timeout - 1,
                          !.pc = IF cmd.timeout # 0 /\ chan.open /\ chan.waiting
                                 THEN "take" ELSE "chkopen"]
    /\ obs' = [obs EXCEPT !.waits = IF cmd'.pc = "take" THEN @ + 1 ELSE @,
                          !.takesAfterClose =
                              IF cmd'.pc = "take" /\ obs.closedInWait THEN @ + 1 ELSE @]
    /\ UNCHANGED <<parser, hung, chan, reader, closer, crashed>>

\* line 247: xSemaphoreTake(priv->xSem, 1000 ms) returns pdTRUE: break
CmdTake ==
    /\ UNCHANGED pghost
    /\ Alive /\ cmd.pc = "take"
    /\ chan.xSem = 1
    /\ chan' = [chan EXCEPT !.xSem = 0]
    /\ cmd' = [cmd EXCEPT !.pc = "chkopen"]
    /\ UNCHANGED <<parser, hung, reader, closer, crashed, obs>>

\* line 247: the one-second wait expires
CmdTick ==
    /\ UNCHANGED pghost
    /\ Alive /\ cmd.pc = "take"
    /\ chan.xSem = 0
    /\ cmd' = [cmd EXCEPT !.pc = "loop"]
    /\ obs' = [obs EXCEPT !.ticksAfterClose = IF obs.closedInWait THEN @ + 1 ELSE @]
    /\ UNCHANGED <<parser, hung, chan, reader, closer, crashed>>

\* line 254: if (!priv->open)
CmdCheckOpen ==
    /\ UNCHANGED pghost
    /\ Alive /\ cmd.pc = "chkopen"
    /\ IF ~chan.open
       THEN /\ cmd' = [cmd EXCEPT !.pc = "clear", !.result = NullResult]
            /\ obs' = [obs EXCEPT !.path = "closed"]
       ELSE /\ cmd' = [cmd EXCEPT !.pc = "chkwait"]
            /\ UNCHANGED obs
    /\ UNCHANGED <<parser, hung, chan, reader, closer, crashed>>

\* lines 258-266: else if (priv->waiting) ... else result = priv->response
CmdCheckWaiting ==
    /\ UNCHANGED pghost
    /\ Alive /\ cmd.pc = "chkwait"
    /\ IF chan.waiting
       THEN /\ cmd' = [cmd EXCEPT !.pc = "reset"]
            /\ UNCHANGED obs
       ELSE /\ cmd' = [cmd EXCEPT !.pc = "clear", !.result = ResponseResult(chan.response)]
            /\ obs' = [obs EXCEPT !.path = "response"]
    /\ UNCHANGED <<parser, hung, chan, reader, closer, crashed>>

\* lines 261-262: at_parser_reset; result = NULL
CmdReset ==
    /\ UNCHANGED pghost
    /\ Alive /\ cmd.pc = "reset"
    /\ parser' = at_parser_reset(parser)
    /\ cmd' = [cmd EXCEPT !.pc = "clear", !.result = NullResult]
    /\ obs' = [obs EXCEPT !.path = "timeout"]
    /\ UNCHANGED <<hung, chan, reader, closer, crashed>>

\* line 269: priv->at.command_scanner = NULL
CmdClear ==
    /\ UNCHANGED pghost
    /\ Alive /\ cmd.pc = "clear"
    /\ chan' = [chan EXCEPT !.command_scanner = NULL]
    /\ cmd' = [cmd EXCEPT !.pc = "ret"]
    /\ UNCHANGED <<parser, hung, reader, closer, crashed, obs>>

\* line 272: return result
CmdReturn ==
    /\ UNCHANGED pghost
    /\ Alive /\ cmd.pc = "ret"
    /\ cmd' = [cmd EXCEPT !.pc = "idle"]
    /\ UNCHANGED <<parser, hung, chan, reader, closer, crashed, obs>>

\* at_reader_thread, lines 420-432: wait until running and open
ReaderCheck ==
    /\ UNCHANGED pghost
    /\ Alive /\ reader.pc = "check"
    /\ chan.running /\ chan.open
    /\ reader' = [reader EXCEPT !.pc = "read"]
    /\ UNCHANGED <<parser, hung, chan, cmd, closer, crashed, obs>>

\* The dispatcher's handle_response for each response callback of a feed.
DeliverResponses(c, cbs) ==
    LET resp == SelectSeq(cbs, LAMBDA e : e.cb = "handle_response")
    IN  IF resp = <<>> THEN c
        ELSE [c EXCEPT !.response = resp[Len(resp)].data,
                       !.waiting = FALSE,
                       !.xSem = 1]

\* Where _at_command is when handle_response fires: between its write and
\* its store of waiting = true ("early"), or from that store to its test of
\* waiting at line 258 ("waiting").
AnsweredAt(pc, before) ==
    IF pc = "setwait" THEN "early"
    ELSE IF pc \in {"drain1", "drain2", "loop", "take", "chkopen", "chkwait"}
    THEN "waiting"
    ELSE before

\* line 454: at_parser_feed(priv->at.parser, &ch, 1).  A feed that finds the
\* parser in STATE_HEXDATA spins in its loop with the byte unread.
ReaderFeed(ch) ==
    \E r \in at_parser_feed([Run EXCEPT !.calls = <<>>, !.fed = <<>>, !.hung = FALSE], <<ch>>) :
       /\ parser' = r.p
       /\ hung' = r.hung
       /\ chan' = DeliverResponses(chan, r.calls)
       /\ reader' = IF r.hung THEN [pc |-> "spin", ch |-> ch] ELSE ReaderIdle
       /\ obs' = [obs EXCEPT
                    !.delivered = @ \/ (\E i \in 1 .. Len(r.calls) :
                                          r.calls[i].cb = "handle_response"),
                    !.answered =
                        IF \E i \in 1 .. Len(r.calls) : r.calls[i].cb = "handle_response"
                        THEN AnsweredAt(cmd.pc, @)
                        ELSE @]
       /\ UNCHANGED <<cmd, closer, crashed>>

\* lines 445-452: read one byte, or none within the read timeout
ReaderRead ==
    /\ UNCHANGED pghost
    /\ Alive /\ reader.pc = "read"
    /\ TransportCall(
          \/ /\ reader' = ReaderIdle
             /\ UNCHANGED <<parser, hung, chan, cmd, closer, crashed, obs>>
          \/ /\ obs.nrx < MaxRx
             /\ \E ch \in RxBytes : reader' = [pc |-> "feed", ch |-> ch]
             /\ obs' = [obs EXCEPT !.nrx = @ + 1]
             /\ UNCHANGED <<parser, hung, chan, cmd, closer, crashed>>,
          /\ reader' = ReaderIdle
          /\ UNCHANGED <<parser, hung, chan, cmd, closer, crashed, obs>>)

\* lines 453-455: feed the byte to the parser
ReaderFeedByte ==
    /\ UNCHANGED pghost
    /\ Alive /\ reader.pc = "feed"
    /\ ReaderFeed(reader.ch)

\* The loop of a spinning at_parser_feed goes on once another task has taken
\* the parser out of STATE_HEXDATA.
ReaderSpin ==
    /\ UNCHANGED pghost
    /\ Alive /\ reader.pc = "spin"
    /\ parser.state # STATE_HEXDATA
    /\ ReaderFeed(reader.ch)

\* No lock is held around the parser: the mutex calls at lines 213-270 and
\* 437-456 are commented out.  A call the caller makes on the parser while the
\* reader task is inside at_parser_feed races with it, field by field: where
\* both store a field, either store may be the last.  (at_parser_await_response
\* stores only fields that a feed in STATE_IDLE leaves alone, so only the
\* at_parser_reset of the timeout path has such a race.)  `mine` is the parser
\* the caller's call alone leaves, `fields` the fields that call stores,
\* `theirs` the parser the running feed alone leaves.
TornParsers(mine, fields, theirs) ==
    LET contested == {f \in fields : theirs[f] # parser[f]}
        base == [f \in DOMAIN parser |-> IF f \in fields THEN mine[f] ELSE theirs[f]]
        mixed == { [f \in DOMAIN parser |-> IF f \in S THEN theirs[f] ELSE base[f]] :
                     S \in SUBSET contested \ {{}} }
    IN  { q \in mixed : q.buf_current <= Len(q.buf) }

\* The caller's call and the reader's feed of its byte, racing.
TornFeed(mine, fields) ==
    /\ reader.pc = "feed"
    /\ \E r \in at_parser_feed([Run EXCEPT !.calls = <<>>, !.fed = <<>>], <<reader.ch>>) :
          /\ ~r.hung
          /\ parser' \in TornParsers(mine, fields, r.p)
          /\ chan' = DeliverResponses(chan, r.calls)
          /\ obs' = [obs EXCEPT
                       !.path = IF cmd.pc = "reset" THEN "timeout" ELSE @,
                       !.delivered = @ \/ (\E i \in 1 .. Len(r.calls) :
                                             r.calls[i].cb = "handle_response")]
    /\ reader' = ReaderIdle
    /\ UNCHANGED <<hung, closer, crashed>>

\* lines 261-262 racing with line 454
CmdResetTorn ==
    /\ UNCHANGED pghost
    /\ Alive /\ cmd.pc = "reset"
    /\ TornFeed(at_parser_reset(parser),
                {"state", "per_command_scanner", "buf", "buf_current", "data_left"})
    /\ cmd' = [cmd EXCEPT !.pc = "clear", !.result = NullResult]

NextChan ==
    \/ Open \/ OpenFails \/ CloseBegin \/ CloseEnd \/ SetTimeout \/ SetCommandScanner
    \/ FreeBegin \/ FreeDeinit \/ FreeEnd
    \/ CmdEnter \/ CmdArm \/ CmdWrite \/ CmdSetWaiting \/ CmdDrain \/ CmdDrainLoad
    \/ CmdLoop \/ CmdTake \/ CmdTick \/ CmdCheckOpen \/ CmdCheckWaiting \/ CmdReset
    \/ CmdClear \/ CmdReturn
    \/ ReaderCheck \/ ReaderRead \/ ReaderFeedByte \/ ReaderSpin
    \/ CmdResetTorn

SpecChan == InitChan /\ [][NextChan]_vars

\* The task inside _at_command is scheduled again and again: a step it can
\* take, the expiry of its one-second wait included, is taken.
CmdStep ==
    \/ CmdArm \/ CmdWrite \/ CmdSetWaiting \/ CmdDrain \/ CmdDrainLoad
    \/ CmdLoop \/ CmdTake \/ CmdTick \/ CmdCheckOpen \/ CmdCheckWaiting \/ CmdReset
    \/ CmdClear \/ CmdResetTorn

SpecChanFair == SpecChan /\ WF_vars(CmdStep)

\* ------------------------------------------------------------------ reference notions

Min(a, b) == IF a < b THEN a ELSE b

Truncate(s, n) == SubSeq(s, 1, Min(Len(s), n))

\* The non-empty lines a byte stream completes: split at LF, CR dropped.
RECURSIVE LinesFrom(_, _, _)
LinesFrom(s, i, cur) ==
    IF i > Len(s) THEN <<>>
    ELSE IF s[i] = LF
    THEN (IF cur = <<>> THEN <<>> ELSE <<cur>>) \o LinesFrom(s, i + 1, <<>>)
    ELSE IF s[i] = CR THEN LinesFrom(s, i + 1, cur)
    ELSE LinesFrom(s, i + 1, Append(cur, s[i]))

CompleteLines(s) == LinesFrom(s, 1, <<>>)

\* The line a byte stream leaves unfinished.
RECURSIVE PartialFrom(_, _, _)
PartialFrom(s, i, cur) ==
    IF i > Len(s) THEN cur
    ELSE IF s[i] = LF THEN PartialFrom(s, i + 1, <<>>)
    ELSE IF s[i] = CR THEN PartialFrom(s, i + 1, cur)
    ELSE PartialFrom(s, i + 1, Append(cur, s[i]))

PartialLine(s) == PartialFrom(s, 1, <<>>)

\* A stream that is non-empty lines, each ended by CR LF and holding no other
\* CR or LF: its lines.  Any other stream: NotLines.
NotLines == << <<>> >>

RECURSIVE CrLfFrom(_, _, _, _)
CrLfFrom(s, i, cur, acc) ==
    IF i > Len(s) THEN (IF cur = <<>> THEN acc ELSE NotLines)
    ELSE IF s[i] = CR
    THEN IF i + 1 <= Len(s) /\ s[i + 1] = LF /\ cur # <<>>
         THEN CrLfFrom(s, i + 2, <<>>, Append(acc, cur))
         ELSE NotLines
    ELSE IF s[i] = LF THEN NotLines
    ELSE CrLfFrom(s, i + 1, Append(cur, s[i]), acc)

CrLfLines(s) == CrLfFrom(s, 1, <<>>, <<>>)

RECURSIVE JoinLines(_)
JoinLines(ls) ==
    IF ls = <<>> THEN <<>>
    ELSE IF Len(ls) = 1 THEN ls[1]
    ELSE ls[1] \o <<LF>> \o JoinLines(Tail(ls))

Front(ls) == SubSeq(ls, 1, Len(ls) - 1)

\* The callbacks, as (callback, argument) pairs, made after the first n.
CallsSince(n) ==
    [i \in 1 .. (Len(calls) - n) |->
        [cb |-> calls[n + i].cb, data |-> calls[n + i].data]]

FedSince(n) == SubSeq(fed, n + 1, Len(fed))

Urc(line) == [cb |-> "handle_urc", data |-> line]
Response(data) == [cb |-> "handle_response", data |-> data]

\* ------------------------------------------------------------------ C1

Cursors(cur, used, size) == 0 <= cur /\ cur <= used /\ used < size

CursorsHold(r) ==
    /\ Cursors(r.p.buf_current, Len(r.p.buf), r.p.buf_size)
    /\ \A i \in 1 .. Len(r.calls) :
          Cursors(r.calls[i].cur, r.calls[i].used, r.calls[i].size)

\* The state as it is, and after every byte of every slice that Feed may
\* feed next, one byte more at a time.
AfterEveryByte ==
    IF hung \/ nfeeds >= MaxFeeds THEN {Run}
    ELSE UNION { UNION { at_parser_feed(Run, SubSeq(data, 1, k)) :
                         k \in 0 .. Len(data) } : data \in Chunks }

\* C1: for any buffer size chosen at construction and any sequence of
\* at_parser_reset, at_parser_await_response and at_parser_feed calls,
\* 0 <= buf_current <= buf_used < buf_size holds after every processed byte
\* and at every callback invocation.
C1_CursorsAnySize == \A r \in AfterEveryByte : CursorsHold(r)

\* C1 for the buffer sizes of at least 1: the cursor invariant holds.
C1_Cursors == parser.buf_size >= 1 => \A r \in AfterEveryByte : CursorsHold(r)

\* ------------------------------------------------------------------ C2

\* The parser was reset, then armed, and only the built-in scanner is in use.
ArmedFresh == arm.n > 0 /\ arm.fresh /\ ~hung

BuiltinOnly == arm.scanner = NULL /\ parser.scan_line = NULL

\* The lines fed since the arming call, when they are all CR LF terminated.
ArmedLines == CrLfLines(FedSince(arm.pos))

\* k >= 0 non-empty intermediate lines and then "OK", CR LF each.
IsOkResponse(ls) ==
    /\ ls # NotLines
    /\ ls # <<>>
    /\ ls[Len(ls)] = <<"O", "K">>
    /\ \A i \in 1 .. Len(ls) - 1 :
          generic_line_scanner(ls[i]) = AT_RESPONSE_INTERMEDIATE

\* C2: from a reset parser armed with dataprompt = false and the built-in
\* scanner, k >= 0 non-empty intermediate CR LF lines and then "OK\r\n"
\* produce exactly one handle_response, whose payload is the k lines joined
\* by a single LF, without the OK line.
C2_ResponseAssembly ==
    (ArmedFresh /\ ~arm.dataprompt /\ BuiltinOnly /\ IsOkResponse(ArmedLines))
    => CallsSince(arm.ncalls) = <<Response(JoinLines(Front(ArmedLines)))>>

\* The bytes a response of these lines needs in the buffer: the lines, their
\* separators, and the separator and the two bytes of "OK".
OkResponseBytes(ls) ==
    Len(JoinLines(Front(ls))) + (IF Len(ls) > 1 THEN 1 ELSE 0) + 2

\* C2 for the responses that fit the buffer whole: the assembly is as stated.
C2_ResponseAssemblyFits ==
    (/\ ArmedFresh /\ ~arm.dataprompt /\ BuiltinOnly /\ IsOkResponse(ArmedLines)
     /\ OkResponseBytes(ArmedLines) <= Capacity(parser))
    => /\ CallsSince(arm.ncalls) = <<Response(JoinLines(Front(ArmedLines)))>>
       /\ parser.state = STATE_IDLE

\* ------------------------------------------------------------------ C3

\* The non-empty lines completed since the parser last became idle.
IdleLines == CompleteLines(FedSince(idle.pos))

\* C3 as stated: while the parser is in IDLE, every non-empty line fed causes
\* exactly one handle_urc with that line and no handle_response, and the
\* parser stays in IDLE.
C3_IdleLinesWhole ==
    [][(parser.state = STATE_IDLE /\ fed' # fed)
       => /\ parser'.state = STATE_IDLE
          /\ CallsSince(idle.ncalls)' =
                [i \in 1 .. Len(IdleLines') |-> Urc(IdleLines'[i])]]_vars

\* What handle_urc is given of the lines: each cut to the first buf_size - 1
\* bytes; nothing at all when that is no byte.
CutLines(ls) ==
    IF Capacity(parser) = 0 THEN <<>>
    ELSE [i \in 1 .. Len(ls) |-> Urc(Truncate(ls[i], Capacity(parser)))]

\* C3 (amended): while the parser is in IDLE, with a buffer of at least 1
\* byte, every non-empty line fed causes no handle_response and exactly one
\* handle_urc, with the first buf_size - 1 bytes of that line (the whole line
\* when it fits; no handle_urc at all when buf_size is 1), and the parser
\* stays in IDLE.
C3_IdleLines ==
    [][(parser.state = STATE_IDLE /\ parser.buf_size >= 1 /\ fed' # fed)
       => /\ parser'.state = STATE_IDLE
          /\ CallsSince(idle.ncalls)' = CutLines(IdleLines')]_vars

\* In IDLE and never armed, "OK" and a second line were each given to
\* handle_urc; one line was cut to the buffer.
C3_Witness ==
    /\ parser.state = STATE_IDLE
    /\ parser.buf_size = 4
    /\ arm.n = 0
    /\ Len(calls) = 2
    /\ \E i \in 1 .. 2 : calls[i].cb = "handle_urc" /\ calls[i].data = <<"O", "K">>
    /\ \E i \in 1 .. 2 : calls[i].cb = "handle_urc" /\ calls[i].data = <<"R", "I", "N">>

\* ------------------------------------------------------------------ C4

\* The slice c is one CR LF line, it starts a line, and the armed parser
\* classifies it as a URC.
UrcLineArrives(c) ==
    /\ parser.state = STATE_READLINE
    /\ ~hung
    /\ PartialLine(fed) = <<>>
    /\ parser.buf_current = Len(parser.buf)
    /\ CrLfLines(c) # NotLines
    /\ Len(CrLfLines(c)) = 1
    /\ LineType(parser, CrLfLines(c)[1]) = AT_RESPONSE_URC
    /\ fed' = fed \o c

\* handle_urc fired once, with the line; state, buffer and cursors are as
\* they were before the line began.
UrcOnly(line) ==
    /\ Len(calls') = Len(calls) + 1
    /\ SubSeq(calls', 1, Len(calls)) = calls
    /\ calls'[Len(calls')].cb = "handle_urc"
    /\ calls'[Len(calls')].data = line
    /\ parser' = parser

\* C4: while the parser is armed (READLINE), a line classified as URC fires
\* handle_urc exactly once with that line, leaves the parser armed, and
\* leaves the committed response content and both cursors as they were
\* before the URC line began.
C4_UrcDuringCommand ==
    [][\A c \in Chunks : UrcLineArrives(c) => UrcOnly(CrLfLines(c)[1])]_vars

\* C4 for the URC lines that fit the buffer behind the committed content and
\* a separator: they leave the response untouched.
C4_UrcDuringCommandFits ==
    [][\A c \in Chunks :
         (/\ UrcLineArrives(c)
          /\ Len(parser.buf) + (IF parser.buf # <<>> THEN 1 ELSE 0)
                + Len(CrLfLines(c)[1]) <= Capacity(parser))
         => UrcOnly(CrLfLines(c)[1])]_vars

\* ------------------------------------------------------------------ C5

\* What the caller can tell of a run: the parser, the callbacks and their
\* arguments, and whether at_parser_feed came back.
Seen(r) ==
    [p |-> r.p, hung |-> r.hung,
     calls |-> [i \in 1 .. Len(r.calls) |->
                   [cb |-> r.calls[i].cb, data |-> r.calls[i].data]]]

\* The runs that feeding data[i ..] one byte per at_parser_feed call, from
\* any of the runs rs, can end in.  A call that does not return is the last.
RECURSIVE FeedEach(_, _, _)
FeedEach(rs, data, i) ==
    IF i > Len(data) THEN rs
    ELSE FeedEach(UNION { IF r.hung THEN {r} ELSE at_parser_feed(r, <<data[i]>>)
                          : r \in rs },
                  data, i + 1)

\* C5: from any parser state, a byte stream fed in one at_parser_feed call
\* and the same stream fed one byte per call produce the same callbacks with
\* the same arguments and the same final parser state.
C5_FeedEquivalence ==
    ~hung =>
       \A data \in Chunks :
          { Seen(r) : r \in at_parser_feed(Run, data) }
             = { Seen(r) : r \in FeedEach({Run}, data, 1) }

\* C5 for the parser states outside RAWDATA and HEXDATA and the slices whose
\* lines lead to neither: the two ways of feeding agree.
C5_FeedEquivalenceLines ==
    (~hung /\ parser.scan_line = NULL /\ parser.per_command_scanner = NULL)
    => \A data \in Chunks :
          { Seen(r) : r \in at_parser_feed(Run, data) }
             = { Seen(r) : r \in FeedEach({Run}, data, 1) }

\* ------------------------------------------------------------------ C6

\* What the classifier chain of the armed parser makes of a line.
ArmedType(line) ==
    LineType([per_command_scanner |-> arm.scanner,
              scan_line |-> parser.scan_line], line)

\* Intermediate lines longer, joined, than the buffer holds, and then a
\* final line.
IsOverflowingResponse(ls) ==
    /\ ls # NotLines
    /\ Len(ls) >= 2
    /\ ArmedType(ls[Len(ls)]) \in {AT_RESPONSE_FINAL_OK, AT_RESPONSE_FINAL}
    /\ \A i \in 1 .. Len(ls) - 1 : ArmedType(ls[i]) = AT_RESPONSE_INTERMEDIATE
    /\ Len(JoinLines(Front(ls))) > Capacity(parser)

\* C6: when a command is armed and the intermediate lines of its response
\* exceed the buffer, the final line still produces exactly one
\* handle_response, carrying the truncated content (at most buf_size - 1
\* bytes), and the parser returns to IDLE.
C6_OverflowDelivers ==
    (ArmedFresh /\ ~arm.dataprompt /\ IsOverflowingResponse(ArmedLines))
    => /\ Len(CallsSince(arm.ncalls)) = 1
       /\ CallsSince(arm.ncalls)[1].cb = "handle_response"
       /\ Len(CallsSince(arm.ncalls)[1].data) <= Capacity(parser)
       /\ parser.state = STATE_IDLE

\* ------------------------------------------------------------------ C7

\* Armed with dataprompt = true, the built-in scanner, and fed "> ".
PromptFed ==
    /\ ArmedFresh
    /\ arm.dataprompt
    /\ BuiltinOnly
    /\ FedSince(arm.pos) = <<">", " ">>

\* C7 as stated: armed with dataprompt = true and the built-in scanner, the
\* two bytes "> " with no CR or LF produce exactly one handle_response whose
\* payload is "> " with length 2, and the parser returns to IDLE.
C7_PromptPayload ==
    PromptFed
    => /\ CallsSince(arm.ncalls) = <<Response(<<">", " ">>)>>
       /\ parser.state = STATE_IDLE

\* C7 (amended): armed with dataprompt = true and the built-in scanner, in a
\* buffer of at least 3 bytes, the two bytes "> " with no CR or LF produce
\* exactly one handle_response whose payload is empty (length 0), the prompt
\* being a final OK line, and the parser returns to IDLE.
C7_PromptDelivery ==
    (PromptFed /\ parser.buf_size >= 3)
    => /\ CallsSince(arm.ncalls) = <<Response(<<>>)>>
       /\ parser.state = STATE_IDLE

C7_Witness ==
    /\ PromptFed
    /\ parser.buf_size = 4
    /\ Len(calls) = 1
    /\ calls[1].cb = "handle_response"
    /\ calls[1].used = 0

\* ------------------------------------------------------------------ C8

\* _at_command is about to return on an open channel and no final response
\* was delivered during the call.
ReturnsUnanswered ==
    /\ cmd.pc = "ret"
    /\ obs.path \notin {"not_open", "closed"}
    /\ ~obs.delivered

\* C8: on an open channel, if no final response is delivered, the command
\* makes at most `timeout` one-second waits and returns null, and when it
\* returns the parser is in IDLE with an empty buffer, for every timeout
\* value and every interleaving with the reader task.
C8_TimeoutAbandons ==
    ReturnsUnanswered
    => /\ obs.path = "timeout"
       /\ obs.waits <= chan.timeout
       /\ cmd.result = NullResult
       /\ parser.state = STATE_IDLE
       /\ parser.buf = <<>>

\* C8 without the parser: at most `timeout` waits, and null is returned.
C8_TimeoutWaits ==
    ReturnsUnanswered
    => /\ obs.path = "timeout"
       /\ obs.waits <= chan.timeout
       /\ cmd.result = NullResult

\* ------------------------------------------------------------------ C9

\* C9: if at_close runs while a command is blocked waiting for its response,
\* that command returns null no later than its next one-second wait tick,
\* whether or not a response was delivered around the same time.
C9_InFlightClose ==
    (obs.closedInWait /\ cmd.pc \notin {"ret", "idle"})
       ~> (cmd.pc = "ret" /\ cmd.result = NullResult /\ obs.ticksAfterClose <= 1)

\* C9 without the return: after the close the command starts no new wait,
\* sees at most the one tick of the wait it is in, and if it returns, it
\* returns null.
C9_InFlightCloseSteps ==
    obs.closedInWait
    => /\ obs.takesAfterClose = 0
       /\ obs.ticksAfterClose <= 1
       /\ (cmd.pc = "ret" => cmd.result = NullResult /\ obs.path = "closed")

\* ------------------------------------------------------------------ C10

\* C10: a command on a channel whose open flag is false returns null
\* immediately and changes nothing: no byte is written, the parser is as it
\* was (not armed), and the waiting flag and the signal are as they were.
C10_ClosedCommand ==
    [][(cmd.pc = "idle" /\ cmd'.pc # "idle" /\ ~chan.open)
       => /\ cmd'.pc = "ret"
          /\ cmd'.result = NullResult
          /\ obs'.tx = obs.tx
          /\ parser' = parser
          /\ chan' = chan]_vars

\* A command came back from a channel that had been opened and closed.
C10_Witness ==
    /\ cmd.pc = "ret"
    /\ obs.path = "not_open"
    /\ ~chan.open
    /\ chan.xUART = NULL
    /\ cmd.result = NullResult
    /\ obs.tx = 0

\* ------------------------------------------------------------------ C11

\* C11: the per-command scanner is one-shot: at every return of _at_command
\* (response delivered, timeout, channel closed during the wait, channel not
\* open at entry) the scanner installed by at_set_command_scanner is cleared.
C11_ScannerOneShot == cmd.pc = "ret" => chan.command_scanner = NULL

\* C11 for the commands that got past the test of priv->open at entry: the
\* scanner is cleared when they return.
C11_ScannerClearedAfterWait ==
    (cmd.pc = "ret" /\ obs.path # "not_open") => chan.command_scanner = NULL

\* ------------------------------------------------------------------ C12

\* A run that starts at the parser p.
RunOf(p) ==
    [p |-> p, calls |-> <<>>, fed |-> <<>>, idle |-> [pos |-> 0, ncalls |-> 0],
     hung |-> FALSE, over |-> 0]

\* What the caller can tell of the runs that arming p and feeding it data
\* can end in, the nibble field apart.
ArmedFeeds(p, dataprompt, scanner, data) ==
    { Seen([r EXCEPT !.p.nibble = 0]) :
        r \in at_parser_feed(RunOf(at_parser_await_response(p, dataprompt, scanner)),
                             data) }

IdleFeeds(p, data) ==
    { Seen([r EXCEPT !.p.nibble = 0]) : r \in at_parser_feed(RunOf(p), data) }

\* No at_parser_await_response or at_parser_feed call was made since the last
\* at_parser_reset call (at_parser_alloc ends in one).
JustReset == nfeeds = 0 /\ arm.n = 0

\* C12 as stated: after any sequence of at_parser_await_response and
\* at_parser_feed calls followed by at_parser_reset, every field of the parser
\* that affects later behaviour (state, buf_used, buf_current, data_left,
\* nibble, per_command_scanner) equals its value in the freshly allocated
\* parser.
C12_ResetRestoresAll == JustReset => parser = allocated

\* C12 (amended): after any such sequence followed by at_parser_reset, state,
\* buf_used, buf_current, data_left and per_command_scanner equal their values
\* in the freshly allocated parser; nibble, which neither at_parser_alloc nor
\* at_parser_reset stores, is as the last HEXDATA_FOLLOWS line left it; and
\* any subsequent byte stream, armed or not, produces the same callbacks on
\* both.
C12_ResetRestores ==
    JustReset =>
       /\ [parser EXCEPT !.nibble = allocated.nibble] = allocated
       /\ \A data \in Chunks :
             /\ IdleFeeds(parser, data) = IdleFeeds(allocated, data)
             /\ \A dataprompt \in BOOLEAN, scanner \in {NULL, ScanCommand} :
                   ArmedFeeds(parser, dataprompt, scanner, data)
                      = ArmedFeeds(allocated, dataprompt, scanner, data)

\* A parser that had gone into HEXDATA was reset.
C12_Witness ==
    /\ JustReset
    /\ fed = <<>>
    /\ parser.state = STATE_IDLE
    /\ parser.data_left = 0
    /\ parser.nibble # allocated.nibble

\* ------------------------------------------------------------------ C13

\* No at_close call is in progress and the channel is closed.
Closed == Alive /\ closer = "idle" /\ ~chan.open

\* C13: after at_close on a channel, a subsequent at_open succeeds and sets
\* open = true (so that a following command is written to the transport and
\* can return a response): on a closed channel the successful at_open is
\* always possible.
C13_Reopen == Closed => ENABLED Open

\* What the code does instead: once at_close has dropped the transport
\* reference, open is false for good and no command writes a byte.
C13_ClosedForGood ==
    [][chan.xUART = NULL =>
          /\ chan'.xUART = NULL
          /\ ~chan'.open
          /\ obs'.tx = obs.tx]_vars

\* ------------------------------------------------------------------ C14

\* The task inside at_close or at_free is at line 137, about to call deinit.
AtDeinit == Alive /\ closer \in {"deinit", "free_deinit"}

\* C14: at_free closes only if needed: across any sequence of at_close and
\* at_free calls, in any lifecycle state, deinit is never called through a
\* transport reference that has already been dropped (and so, the first call
\* dropping the reference, deinit is called at most once).
C14_FreeClosesIfNeeded == AtDeinit => chan.xUART # NULL

\* C14 for the first at_close or at_free call of a channel: its deinit goes
\* through the live reference.
C14_FirstDeinit ==
    [][(closer = "idle" /\ chan.xUART # NULL /\ closer' # "idle")
       => chan'.xUART # NULL]_vars

\* ------------------------------------------------------------------ C15

\* The line being assembled: buf[buf_current .. buf_used - 1].
CurrentLine(p) == SubSeq(p.buf, p.buf_current + 1, Len(p.buf))

\* A feed has left the parser in DATAPROMPT.
FedInPrompt == fed' # fed /\ ~hung' /\ parser'.state = STATE_DATAPROMPT

\* C15: prompt detection is per line: in DATAPROMPT, whenever the line being
\* assembled is exactly the two bytes "> ", the line is finalized at once,
\* without waiting for LF and however many intermediate lines have been
\* committed to the buffer: no feed leaves the parser in DATAPROMPT with "> "
\* as its current line.
C15_PromptPerLine ==
    [][FedInPrompt => CurrentLine(parser') # <<">", " ">>]_vars

\* C15 for the prompt that is the first line of the response: it is
\* finalized at once.
C15_PromptFirstLine ==
    [][(FedInPrompt /\ parser'.buf_current = 0)
       => CurrentLine(parser') # <<">", " ">>]_vars

\* ------------------------------------------------------------------ C16

\* No _at_command call is in progress.
NoCommand == cmd.pc = "idle"

\* C16: whenever no command call is in progress on the channel (before the
\* first command and after each command returns, by response, by timeout, or
\* because the channel was closed during the wait), the parser is in IDLE, so
\* that every line the reader then feeds goes to the URC path.
C16_IdleBetweenCommands == NoCommand => parser.state = STATE_IDLE

\* C16 before the first command and after a command that returned its
\* response: the parser is in IDLE.
C16_IdleAfterResponse ==
    (NoCommand /\ (obs.ncmds = 0 \/ obs.path = "response"))
    => parser.state = STATE_IDLE

\* ------------------------------------------------------------------ C17

\* The end of a raw payload: '\n' appended, buf_current = buf_used, READLINE.
RawDone(p) ==
    LET q == parser_append(p, LF)
    IN  [q EXCEPT !.buf_current = Len(q.buf), !.state = STATE_READLINE]

\* Raw capture as stated: from index i of data, a parser in RAWDATA takes
\* the next data_left bytes verbatim (none when data_left is 0) and, when
\* the next byte comes, goes on in READLINE with it; every byte is read from
\* data.
RECURSIVE RawCapture(_, _, _)
RawCapture(r, data, i) ==
    IF i > Len(data) THEN r
    ELSE IF r.p.state = STATE_RAWDATA /\ r.p.data_left = 0
    THEN RawCapture([r EXCEPT !.p = RawDone(r.p)], data, i)
    ELSE IF r.p.state = STATE_HEXDATA THEN [r EXCEPT !.hung = TRUE]
    ELSE IF r.p.state = STATE_RAWDATA
    THEN RawCapture([r EXCEPT !.p = [parser_append(r.p, data[i])
                                        EXCEPT !.data_left = r.p.data_left - 1],
                              !.fed = Append(@, data[i])],
                    data, i + 1)
    ELSE RawCapture(FeedLineByte(r, data[i]), data, i + 1)

\* A feed is to come and the parser is armed or in a raw payload.
CaptureAhead ==
    /\ ~hung
    /\ nfeeds < MaxFeeds
    /\ arm.n > 0
    /\ parser.state \in {STATE_READLINE, STATE_DATAPROMPT, STATE_RAWDATA}

\* C17: after a line is classified RAWDATA_FOLLOWS(n) while a command is
\* armed, for every n >= 0 exactly the next n input bytes are appended
\* verbatim, with no line classification and no callback, then '\n' is
\* appended, buf_current = buf_used, the state becomes READLINE, and the byte
\* after the n-th payload byte is processed as ordinary line text.
C17_RawCapture ==
    CaptureAhead =>
       \A data \in Chunks :
          { Seen(r) : r \in at_parser_feed(Run, data) }
             = { Seen(RawCapture(Run, data, 1)) }

\* The bytes a run has read beyond those of fed, the read-past-the-end ones
\* included.
ReadBy(r) == SubSeq(r.fed, Len(fed) + 1, Len(r.fed))

\* C17 for n >= 1 and the bytes the feed reads, from its slice or from behind
\* it: the next n of them are appended verbatim (as far as the buffer holds
\* them) and then '\n', with no callback before; they are in the buffer, or in
\* the response delivered since.
C17_RawPayloadRead ==
    (CaptureAhead /\ parser.state = STATE_RAWDATA /\ parser.data_left >= 1)
    => \A data \in Chunks : \A r \in at_parser_feed(Run, data) :
          LET n == parser.data_left
              want == Truncate(parser.buf \o SubSeq(ReadBy(r), 1, n) \o <<LF>>,
                               Capacity(parser))
          IN  /\ Len(ReadBy(r)) >= n
              /\ \/ IsPrefix(want, r.p.buf)
                 \/ \E i \in Len(calls) + 1 .. Len(r.calls) :
                       /\ r.calls[i].cb = "handle_response"
                       /\ IsPrefix(Truncate(want, Len(want) - 1), r.calls[i].data)

\* ------------------------------------------------------------------ C18

\* What each classifier of the chain says of a line, in the order
\* per-command scanner, session scan_line, built-in scanner; a classifier not
\* installed says nothing.
ChainAnswers(p, line) ==
    << IF p.per_command_scanner # NULL
       THEN RunScanner(p.per_command_scanner, line) ELSE AT_RESPONSE_UNKNOWN,
       IF p.scan_line # NULL
       THEN RunScanner(p.scan_line, line) ELSE AT_RESPONSE_UNKNOWN,
       generic_line_scanner(line) >>

\* The first answer of the chain that is not UNKNOWN.
ChainType(p, line) ==
    LET answers == ChainAnswers(p, line)
        known == {i \in 1 .. 3 : answers[i] # AT_RESPONSE_UNKNOWN}
    IN  answers[CHOOSE i \in known : \A j \in known : i <= j]

RECURSIVE AppendAll(_, _)
AppendAll(p, s) ==
    IF s = <<>> THEN p ELSE AppendAll(parser_append(p, Head(s)), Tail(s))

\* The parser holds no unfinished line, and the slice c, one CR LF line, is
\* fed to it in a line state.
LineArrives(c) ==
    /\ Len(fed') = Len(fed) + Len(c)
    /\ parser.state \in {STATE_IDLE, STATE_READLINE, STATE_DATAPROMPT}
    /\ ~hung
    /\ parser.buf_current = Len(parser.buf)
    /\ fed' = fed \o c
    /\ CrLfLines(c) # NotLines
    /\ Len(CrLfLines(c)) = 1

\* The line of c as the buffer holds it: behind a separator if there is
\* content before it, and cut where the buffer is full.
StoredLine(c) ==
    LET sep == IF Len(parser.buf) > 0 THEN parser_append(parser, LF) ELSE parser
        all == AppendAll(sep, CrLfLines(c)[1])
    IN  SubSeq(all.buf, Len(sep.buf) + 1, Len(all.buf))

NewCalls == SubSeq(calls', Len(calls) + 1, Len(calls'))

\* What shows of a line's type t: the callback made, its argument, and the
\* state left.
TreatedAs(t, line) ==
    LET cat == t % RESPONSE_TYPE_MOD
    IN  IF t = AT_RESPONSE_URC \/ parser.state = STATE_IDLE
        THEN /\ Len(NewCalls) = 1
             /\ NewCalls[1].cb = "handle_urc"
             /\ NewCalls[1].data = line
             /\ parser'.state = parser.state
        ELSE IF cat = AT_RESPONSE_FINAL_OK
        THEN /\ Len(NewCalls) = 1
             /\ NewCalls[1].cb = "handle_response"
             /\ NewCalls[1].data = parser.buf
             /\ parser'.state = STATE_IDLE
        ELSE IF cat = AT_RESPONSE_FINAL
        THEN /\ Len(NewCalls) = 1
             /\ NewCalls[1].cb = "handle_response"
             /\ NewCalls[1].data =
                   IF parser.buf = <<>> THEN line ELSE parser.buf \o <<LF>> \o line
             /\ parser'.state = STATE_IDLE
        ELSE IF cat = RESPONSE_RAWDATA_FOLLOWS
        THEN /\ NewCalls = <<>>
             /\ parser'.state = STATE_RAWDATA
             /\ parser'.data_left = t \div RESPONSE_TYPE_MOD
        ELSE IF cat = RESPONSE_HEXDATA_FOLLOWS
        THEN /\ NewCalls = <<>>
             /\ parser'.state = STATE_HEXDATA
             /\ parser'.data_left = t \div RESPONSE_TYPE_MOD
        ELSE /\ NewCalls = <<>>
             /\ parser'.state = parser.state
             /\ parser'.buf_current = Len(parser'.buf)

\* C18: the type of each non-empty line is the value returned by the first
\* classifier, in the order per-command scanner, session scan_line, built-in
\* scanner, that returns a value other than UNKNOWN, a classifier not
\* installed being passed over; the built-in scanner never returns UNKNOWN.
\* The line is treated as that type says.
C18_ClassifierChain ==
    [][\A c \in Chunks :
         LineArrives(c) =>
            LET line == StoredLine(c)
            IN  line # <<>> =>
                   /\ generic_line_scanner(line) # AT_RESPONSE_UNKNOWN
                   /\ TreatedAs(ChainType(parser, line), line)]_vars

\* With a session scan_line and a per-command scanner that both know the line
\* "A", the per-command scanner's answer (hex data follows) was taken.
C18_Witness ==
    /\ parser.scan_line = ScanSession
    /\ parser.per_command_scanner = ScanCommand
    /\ Len(fed) = 3
    /\ SubSeq(fed, 1, 3) = <<"A", CR, LF>>
    /\ parser.state = STATE_HEXDATA
    /\ parser.data_left = 0
    /\ calls = <<>>

\* ------------------------------------------------------------------ C19

\* _at_command is about to return on a channel that is open, with a timeout
\* of at least 1.
ReturnsOpen ==
    /\ cmd.pc = "ret"
    /\ obs.path \notin {"not_open", "closed"}
    /\ chan.open
    /\ chan.timeout >= 1

\* C19: on an open channel with timeout >= 1, if the reader task's
\* handle_response fires for a command after that command's transport write
\* (before the caller has set waiting = true and drained the signal
\* included), the command returns the response buffer that handle_response
\* filled, not null.
C19_NoLostResponse ==
    (ReturnsOpen /\ obs.answered # "no")
    => cmd.result = ResponseResult(chan.response)

\* C19 for a handle_response that fires once waiting = true is stored: the
\* command returns the response buffer.
C19_ResponseWhileWaiting ==
    (ReturnsOpen /\ obs.answered = "waiting")
    => cmd.result = ResponseResult(chan.response)

\* ------------------------------------------------------------------ C20

\* C20: at_parser_feed always returns, having read exactly the len bytes of
\* its slice, each once and none behind the slice, in every parser state
\* (IDLE, READLINE, DATAPROMPT, RAWDATA and HEXDATA): no call is stuck in its
\* loop and no byte was read past the end of a slice.
C20_FeedReturns == ~hung /\ over = 0

\* C20 for a parser whose scanners are the built-in one alone, which leads
\* to neither RAWDATA nor HEXDATA: each call returns, having read its slice
\* and no more.
C20_FeedReturnsLines ==
    [][(/\ parser.scan_line = NULL /\ parser.per_command_scanner = NULL
        /\ nfeeds' = nfeeds + 1)
       => /\ ~hung'
          /\ over' = over
          /\ \E c \in Chunks : fed' = fed \o c]_vars

\* ------------------------------------------------------------------ C21

\* The reader task is at line 445, about to call read, or the caller is at
\* line 234, about to call write.
AtTransportCall == Alive /\ (reader.pc = "read" \/ cmd.pc = "write")

\* C21: under every interleaving of the reader task, a caller's command and
\* at_close, neither the reader's read nor the caller's write is called on
\* the transport after at_close has deinitialized it and dropped the
\* reference: the test of open and the transport call are never separated by
\* a close.
C21_NoUseAfterClose == AtTransportCall => chan.xUART # NULL

\* C21 for the tests of open made once the reference is dropped: the reader
\* does not go on to its read, and a command does not go on to its write.
C21_TestsAfterClose ==
    [][chan.xUART = NULL =>
          /\ reader.pc = "check" => reader'.pc # "read"
          /\ cmd.pc = "idle" => cmd'.pc \in {"idle", "ret"}]_vars

====
